---- MODULE Spec2Model ----
(***************************************************************************)
(* Model of YouTubeTranscriber (src/youtube_transcriber.py): the           *)
(* acquisition-and-transcription pipeline run by process_video, the        *)
(* four-strategy download chain, audio extraction, the lazily loaded       *)
(* speech model, summarization and the cleanup of the temporary files.     *)
(*                                                                         *)
(* Strings are sequences of tokens.  A thread is one caller of             *)
(* process_video; all threads share one filesystem (the working            *)
(* directory) and the transcriber objects.  The callers of process_video   *)
(* are the interactive loop (src/app.py), the handlers of the API server   *)
(* (src/main.py) and the command line (src/local/transcribe.py).           *)
(***************************************************************************)
EXTENDS Integers, Sequences, FiniteSets, TLC

(* ------------------------------ bounds -------------------------------- *)

\* process_video calls made by one thread
MaxCalls == 2
\* caption fragments returned by one caption retrieval
MaxFrags == 2
\* query parameters before, and after, the v parameter of a URL
MaxParams == 1

Threads == {1, 2}
\* YouTubeTranscriber objects alive in the process
Instances == {1, 2}

(* ----------------------- strings and URL parsing ---------------------- *)

\* the characters excluded by the class [^&\n?#] of both patterns
Separators == {"&", "nl", "?", "#"}

Allowed(tok) == tok \notin Separators

IsPrefixAt(lit, s, i) ==
    /\ i + Len(lit) - 1 <= Len(s)
    /\ SubSeq(s, i, i + Len(lit) - 1) = lit

\* the greedy group ([^&\n?#]+) starting at position i
RECURSIVE GroupFrom(_, _)
GroupFrom(s, i) ==
    IF i > Len(s) \/ ~Allowed(s[i]) THEN << >>
    ELSE <<s[i]>> \o GroupFrom(s, i + 1)

SetMin(S) == CHOOSE x \in S : \A y \in S : x <= y
SetMax(S) == CHOOSE x \in S : \A y \in S : x >= y

\* the alternatives of the first pattern, in the order written
PrefixAlternatives ==
    << <<"youtube.com/watch", "?", "v=">>, <<"youtu.be/">>, <<"youtube.com/embed/">> >>

NoMatch == [matched |-> FALSE, group |-> << >>]
Match(g) == [matched |-> TRUE, group |-> g]

\* re.search of pattern 1: leftmost position where an alternative is
\* followed by at least one allowed character
SearchPattern1(s) ==
    LET Hit(i, k) == /\ IsPrefixAt(PrefixAlternatives[k], s, i)
                     /\ GroupFrom(s, i + Len(PrefixAlternatives[k])) # << >>
        Starts == {i \in 1..Len(s) : \E k \in 1..3 : Hit(i, k)}
    IN  IF Starts = {} THEN NoMatch
        ELSE LET i == SetMin(Starts)
                 k == SetMin({j \in 1..3 : Hit(i, j)})
             IN  Match(GroupFrom(s, i + Len(PrefixAlternatives[k])))

\* re.search of pattern 2: youtube.com/watch? then a greedy .* (which does
\* not cross a newline) then v= and the group
SearchPattern2(s) ==
    LET Lit == <<"youtube.com/watch", "?">>
        VAt(i) == {j \in (i + 2)..Len(s) :
                      /\ s[j] = "v="
                      /\ \A m \in (i + 2)..(j - 1) : s[m] # "nl"
                      /\ GroupFrom(s, j + 1) # << >>}
        Starts == {i \in 1..Len(s) : IsPrefixAt(Lit, s, i) /\ VAt(i) # {}}
    IN  IF Starts = {} THEN NoMatch
        ELSE Match(GroupFrom(s, SetMax(VAt(SetMin(Starts))) + 1))

\* _extract_video_id: the first pattern that matches decides; no match
\* raises ValueError
_extract_video_id(url) ==
    IF SearchPattern1(url).matched THEN SearchPattern1(url)
    ELSE SearchPattern2(url)

\* ' '.join([item['text'] for item in transcript])
RECURSIVE Join(_)
Join(frags) ==
    IF frags = << >> THEN << >>
    ELSE IF Len(frags) = 1 THEN frags[1]
    ELSE frags[1] \o <<" ">> \o Join(Tail(frags))

(* ------------------------------ inputs -------------------------------- *)

URLS ==
    { <<"https://www.", "youtube.com/watch", "?", "v=", "abc123">>,
      <<"not a url">> }

\* the identifiers of two videos
VideoIds == { <<"abc123">>, <<"dQw4w9WgXcQ">> }

\* query parameters YouTube puts in its links: a start time, a playlist, the
\* share marker, and the video a mix was started from (rv, whose name ends
\* in "v=")
Params == { <<"t=", "10">>, <<"list=", "PL1">>, <<"feature=", "youtu.be">>,
            <<"r", "v=", "zz">> }

ParamLists == UNION {[1..n -> Params] : n \in 0..MaxParams}

\* the three forms of a link to a video
UrlForms ==
    {[form |-> "long", id |-> i, before |-> b, after |-> a] :
        i \in VideoIds, b \in ParamLists, a \in ParamLists}
    \cup {[form |-> f, id |-> i, before |-> << >>, after |-> a] :
        f \in {"short", "embed"}, i \in VideoIds, a \in ParamLists}

\* p1&p2&...& : the parameters in front of v
RECURSIVE Before(_)
Before(ps) == IF ps = << >> THEN << >> ELSE Head(ps) \o <<"&">> \o Before(Tail(ps))

\* &p1&p2... : the parameters behind v
RECURSIVE After(_)
After(ps) == IF ps = << >> THEN << >> ELSE <<"&">> \o Head(ps) \o After(Tail(ps))

\* ?p1&p2... : the query of a short or embed link
Query(ps) == IF ps = << >> THEN << >> ELSE <<"?">> \o Head(ps) \o After(Tail(ps))

\* the URL of a form, as a string
Render(x) ==
    CASE x.form = "long" ->
            <<"https://www.", "youtube.com/watch", "?">> \o Before(x.before)
                \o <<"v=">> \o x.id \o After(x.after)
      [] x.form = "short" -> <<"https://", "youtu.be/">> \o x.id \o Query(x.after)
      [] x.form = "embed" ->
            <<"https://www.", "youtube.com/embed/">> \o x.id \o Query(x.after)

\* strings that link to no video
OtherStrings ==
    { <<"not a url">>, <<"https://www.", "example.com/">>,
      <<"https://www.", "youtube.com/watch">>,
      <<"https://www.", "youtube.com/watch", "?", "t=", "10">>,
      <<"https://", "youtu.be/">> }

\* the arguments _extract_video_id is applied to
UrlInputs == {Render(x) : x \in UrlForms} \cup OtherStrings

\* the text of one caption fragment: empty or not
FragmentTexts == { << >>, <<"hello">> }

FragmentLists == UNION {[1..n -> FragmentTexts] : n \in 0..MaxFrags}

\* the ways YouTubeTranscriptApi.get_transcript fails
CaptionFailures == {"NoTranscriptFound", "TranscriptsDisabled", "network error", "other"}

\* result["text"] of the speech model
WhisperTexts == { << >>, <<"spoken">> }

video_file == "temp_video.mp4"
audio_file == "temp_audio.wav"
Paths == {video_file, audio_file}

\* the list with the cookie strategy moved in front of the header strategy
strategies_reordered ==
    <<"_dl_basic", "_dl_with_browser_cookies", "_dl_with_headers", "_dl_with_retries">>

\* the list without its last, most aggressive strategy
strategies_short == <<"_dl_basic", "_dl_with_headers", "_dl_with_browser_cookies">>

\* the list with the last strategy tried a second time
strategies_retry_again ==
    <<"_dl_basic", "_dl_with_headers", "_dl_with_browser_cookies", "_dl_with_retries",
      "_dl_with_retries">>

strategies == <<"_dl_basic", "_dl_with_headers", "_dl_with_browser_cookies", "_dl_with_retries">>

None == [isNone |-> TRUE, text |-> << >>]
Some(x) == [isNone |-> FALSE, text |-> x]
\* the test `transcript is not None` in the place of truthiness
TruthyIsNotNone(x) == ~x.isNone

\* the test `if transcript` in the place of `if not transcript`
TruthyInverted(x) == x.isNone \/ x.text = << >>

\* Python truthiness of an Optional[str]
Truthy(x) == ~x.isNone /\ x.text # << >>

NoError == [strategy |-> 0, msg |-> << >>]
\* the exception with which strategy k fails
StrategyError(k) == [strategy |-> k, msg |-> <<"cause of ", strategies[k]>>]

\* last_error = err assigned on the first failure only
LastErrorKeepFirst(prev, k) == IF prev = NoError THEN StrategyError(k) ELSE prev

\* last_error = err in the except clause of the strategy loop
LastError(prev, k) == StrategyError(k)

\* a pause after every failure, the last included
PauseAfterEvery(k) == 1

\* if idx < len(strategies): time.sleep(1.5)
PauseAfter(k) == IF k < Len(strategies) THEN 1 ELSE 0

\* the message that lists the failure of every strategy
AcquisitionMessageAllCauses(err) ==
    <<"Erro ao baixar vídeo: ">> \o StrategyError(1).msg \o StrategyError(2).msg
        \o StrategyError(3).msg \o err.msg

\* the message of Exception(f"Erro ao baixar vídeo: {last_error}")
AcquisitionMessage(err) == <<"Erro ao baixar vídeo: ">> \o err.msg

\* the tag of the speech-model path whatever the run did
MethodAlwaysWhisper(tf) == "whisper"

\* the test on temp_files inverted
MethodInverted(tf) == IF tf # << >> THEN "youtube_transcript" ELSE "whisper"

\* "youtube_transcript" if not temp_files else "whisper"
Method(tf) == IF tf = << >> THEN "youtube_transcript" ELSE "whisper"

\* subprocess.CalledProcessError of run(cmd, check=True, capture_output=True)
CalledProcessError ==
    [cmd |-> "ffmpeg", returncode |-> "1", stderr |-> "ffmpeg diagnostic output"]

\* str(e) of a CalledProcessError: the command and the exit status
StrCalledProcessError(e) ==
    <<"Command ", e.cmd, " returned non-zero exit status ", e.returncode>>

\* the message of Exception(f"Erro ao executar ffmpeg: {e}")
ExtractionMessage(e) == <<"Erro ao executar ffmpeg: ">> \o StrCalledProcessError(e)

NoOutcome == [kind |-> "none"]

NoResult == [pending |-> TRUE]

\* the two shapes of the dictionary process_video returns
SuccessResult(vid, text, summary, method) ==
    [video_id |-> vid, transcript |-> text, summary |-> summary,
     method |-> method, success |-> TRUE]

\* a failure record that also carries the (empty) transcript
FailureResultWithTranscript(vid, message) ==
    [video_id |-> vid, error |-> message, success |-> FALSE, transcript |-> << >>]

FailureResult(vid, message) ==
    [video_id |-> vid, error |-> message, success |-> FALSE]

\* a failed load that leaves a partly built model in the attribute
AfterFailedLoadPartial(m) == -1

\* self.whisper_model = whisper.load_model(...) when load_model raises: the
\* assignment does not happen, the attribute keeps its value
AfterFailedLoad(m) == m

\* chat.completions.create of a client built with the given key (TRUE) or
\* with the placeholder "dummy" (FALSE): the service rejects the placeholder
KeyAccepted(key) == key

\* the fragments YouTubeTranscriptApi.get_transcript delivered to a run that
\* uses them
NoCaptions == [delivered |-> FALSE, frags |-> << >>]
Delivered(f) == [delivered |-> TRUE, frags |-> f]

NoPrevious == [url |-> << >>, captions |-> NoCaptions, outcome |-> NoOutcome]

NoRequest == [endpoint |-> "none"]
NoResponse == [kind |-> "none"]
NoFile == [saved |-> FALSE]

\* strings pydantic accepts as HttpUrl: a link to a video, and a page that is
\* no video
HttpUrls ==
    { <<"https://www.", "youtube.com/watch", "?", "v=", "abc123">>,
      <<"https://www.", "example.com/">> }

\* the optional fields of VideoRequest: left at their defaults, or all set
RequestOptions ==
    { [whisper_model_size |-> "base", language |-> "pt", max_tokens |-> 500],
      [whisper_model_size |-> "small", language |-> "en", max_tokens |-> 100] }

\* the bodies of VideoRequest a client posts to an endpoint; started tells
\* whether process_video was called for it
Requests(endpoint) ==
    {[endpoint |-> endpoint, url |-> u, whisper_model_size |-> o.whisper_model_size,
      language |-> o.language, max_tokens |-> o.max_tokens, started |-> FALSE] :
        u \in HttpUrls, o \in RequestOptions}

\* the size get_transcriber builds the transcriber with
ServerModelSize == "base"

\* the default of transcribe_audio_whisper(audio_path, language="pt"), which
\* process_video calls with the audio path only
TranscribeLanguage == "pt"

\* the default of summarize_with_openai(text, max_tokens=500), which
\* process_video calls with the transcript only
SummaryMaxTokens == 500

\* the fields of VideoResponse (processing_time left out)
VideoResponse(success, vid, text, summary, method, error) ==
    [kind |-> "VideoResponse", success |-> success, video_id |-> vid,
     transcript |-> text, summary |-> summary, method |-> method, error |-> error]

\* the response built from a success record
VideoResponseOk(r) ==
    VideoResponse(TRUE, r.video_id, Some(r.transcript), Some(r.summary),
                  Some(<<r.method>>), None)

\* the response built from a failure record
VideoResponseFailed(r) ==
    VideoResponse(FALSE, r.video_id, None, None, None, Some(r.error))

\* the response of the handler's except clause
VideoResponseError(msg) ==
    VideoResponse(FALSE, <<"unknown">>, None, None, None,
                  Some(<<"Erro interno: ">> \o msg))

\* the exceptions raised inside the handlers' try statements, with str(e);
\* str of an HTTPException is "500: detail" or empty, by the version of the
\* framework
Raised(exc, msg) == [exc |-> exc, msg |-> msg]
InvalidUrl == Raised("ValueError", <<"URL do YouTube inválida">>)
NoKeyConfigured ==
    { Raised("HTTPException", <<"500: ", "Chave da API OpenAI não configurada">>),
      Raised("HTTPException", << >>) }

\* a handler that catches the pipeline's ValueError only
HandlerCatchesValueErrorOnly(e) == e.exc = "ValueError"

\* except Exception in the handlers: ValueError and HTTPException are both
\* subclasses of Exception
HandlerCatches(e) == TRUE

(* ------------------------------- state -------------------------------- *)

VARIABLES
    pc,             \* per thread: the statement of process_video it is at
    calls,          \* per thread: process_video calls its caller still makes
    inst,           \* per thread: the transcriber object of the call (self)
    url,            \* per thread: the argument of the call
    video_id,       \* per thread: local video_id
    transcript,     \* per thread: local transcript (Optional[str])
    temp_files,     \* per thread: local temp_files
    idx,            \* per thread: loop index of download_video
    last_error,     \* per thread: local last_error of download_video
    result,         \* per thread: the value of the return statement reached
    outcome,        \* per thread: how the last call left process_video
    files,          \* the working directory: path -> 0 (absent) or the
                    \* thread that wrote the file
    whisper_model,  \* per transcriber object: 0 (None) or the model held
    constructed,    \* per transcriber object: models whisper.load_model built
    used_model,     \* per thread: the model its last inference ran on
    trace,          \* per thread: the stages the call in progress invoked
    rm_failed,      \* per thread: the paths whose os.remove raised in the
                    \* cleanup of the last call
    pauses,         \* per thread: time.sleep(1.5) calls made by download_video
    captions,       \* per thread: the caption fragments the call in progress
                    \* is using
    previous,       \* per thread: url, captions and outcome of the call that
                    \* returned last, kept while its caller has a call to make
    request,        \* per thread: the request (or command line) its caller
                    \* is handling
    response,       \* per thread: what the handler answered last
    loop,           \* the coroutine the event loop is running: 0 or a thread
    transcriber_instance,   \* the global of src/main.py: 0 (None) or an object
    openai_key,     \* whether the process was given an OpenAI key
    output_file     \* the output file of the command line

vars == <<pc, calls, inst, url, video_id, transcript, temp_files, idx,
          last_error, result, outcome, files, whisper_model, constructed,
          used_model, trace, rm_failed, pauses, captions, previous, request,
          response, loop, transcriber_instance, openai_key, output_file>>

locals == <<video_id, transcript, temp_files, idx, last_error, result>>
model_state == <<whisper_model, constructed, used_model>>
caller_state == <<request, response, loop, transcriber_instance, openai_key,
                  output_file>>

Init ==
    /\ pc = [t \in Threads |-> "idle"]
    /\ calls = [t \in Threads |-> IF t = 1 THEN MaxCalls ELSE 0]
    /\ inst = [t \in Threads |-> 1]
    /\ url = [t \in Threads |-> << >>]
    /\ video_id = [t \in Threads |-> << >>]
    /\ transcript = [t \in Threads |-> None]
    /\ temp_files = [t \in Threads |-> << >>]
    /\ idx = [t \in Threads |-> 0]
    /\ last_error = [t \in Threads |-> NoError]
    /\ result = [t \in Threads |-> NoResult]
    /\ outcome = [t \in Threads |-> NoOutcome]
    /\ files = [p \in Paths |-> 0]
    /\ whisper_model = [i \in Instances |-> 0]
    /\ constructed = [i \in Instances |-> 0]
    /\ used_model = [t \in Threads |-> 0]
    /\ trace = [t \in Threads |-> << >>]
    /\ rm_failed = [t \in Threads |-> {}]
    /\ pauses = [t \in Threads |-> 0]
    /\ captions = [t \in Threads |-> NoCaptions]
    /\ previous = [t \in Threads |-> NoPrevious]
    /\ request = [t \in Threads |-> NoRequest]
    /\ response = [t \in Threads |-> NoResponse]
    /\ loop = 0
    /\ transcriber_instance = 0
    /\ openai_key = TRUE
    /\ output_file = NoFile

Invoked(t, stage, res) ==
    trace' = [trace EXCEPT ![t] = Append(@, [stage |-> stage, res |-> res])]

\* the except clause of process_video: build the failure record, then finally
Except(t, message) ==
    /\ result' = [result EXCEPT ![t] = FailureResult(video_id[t], message)]
    /\ pc' = [pc EXCEPT ![t] = "finally"]

(* ------------------------------ actions ------------------------------- *)

\* entry of process_video on the transcriber object i with the argument u:
\* video_id = self._extract_video_id(url), outside the try statement
Enter(t, i, u) ==
    LET m == _extract_video_id(u) IN
    /\ calls' = [calls EXCEPT ![t] = @ - 1]
    /\ inst' = [inst EXCEPT ![t] = i]
    /\ url' = [url EXCEPT ![t] = u]
    /\ trace' = [trace EXCEPT ![t] = << >>]
    /\ rm_failed' = [rm_failed EXCEPT ![t] = {}]
    /\ IF m.matched
       THEN /\ video_id' = [video_id EXCEPT ![t] = m.group]
            /\ pc' = [pc EXCEPT ![t] = "get_youtube_transcript"]
            /\ outcome' = [outcome EXCEPT ![t] = NoOutcome]
       ELSE /\ outcome' = [outcome EXCEPT ![t] =
                   [kind |-> "raised", msg |-> <<"URL do YouTube inválida">>]]
            /\ UNCHANGED <<video_id, pc>>
    /\ UNCHANGED <<transcript, temp_files, idx, last_error, result, files,
                   model_state, pauses, captions, previous>>

\* a call of process_video by a caller that holds a transcriber object
process_video(t) ==
    /\ pc[t] = "idle"
    /\ calls[t] > 0
    /\ \E i \in Instances, u \in URLS : Enter(t, i, u)
    /\ UNCHANGED caller_state

\* the caption retrieval returns the fragments or raises
ApiOutcomes ==
    {[raised |-> FALSE, exc |-> "", frags |-> f] : f \in FragmentLists}
    \cup {[raised |-> TRUE, exc |-> e, frags |-> << >>] : e \in CaptionFailures}

\* a handler for the library's own exceptions only
CaughtLibraryOnly(api) == api.exc \in {"NoTranscriptFound", "TranscriptsDisabled"}

\* except Exception: every failure of the retrieval is caught
Caught(api) == TRUE

\* get_youtube_transcript and the test `if not transcript`
get_youtube_transcript(t) ==
    /\ pc[t] = "get_youtube_transcript"
    /\ \E api \in ApiOutcomes :
       IF api.raised /\ ~Caught(api)
       THEN /\ Except(t, <<api.exc>>)
            /\ Invoked(t, "get_youtube_transcript", "raised")
            /\ UNCHANGED <<transcript, idx, captions>>
       ELSE
       LET r == IF api.raised THEN None ELSE Some(Join(api.frags)) IN
         /\ UNCHANGED result
         /\ captions' = [captions EXCEPT ![t] =
                IF Truthy(r) THEN Delivered(api.frags) ELSE NoCaptions]
         /\ transcript' = [transcript EXCEPT ![t] = r]
         /\ Invoked(t, "get_youtube_transcript",
                    IF r.isNone THEN "unavailable"
                    ELSE IF r.text = << >> THEN "empty" ELSE "found")
         /\ IF Truthy(r)
            THEN /\ pc' = [pc EXCEPT ![t] = "summarize_with_openai"]
                 /\ UNCHANGED idx
            ELSE /\ pc' = [pc EXCEPT ![t] = "download_video"]
                 /\ idx' = [idx EXCEPT ![t] = 1]
    /\ UNCHANGED <<calls, inst, url, video_id, temp_files, last_error,
                   outcome, files, model_state, rm_failed, pauses, previous,
                   caller_state>>

\* one iteration of the strategy loop of download_video, with the return
\* (and temp_files.append) or the final raise that may follow it
download_video(t) ==
    /\ pc[t] = "download_video"
    /\ LET k == idx[t] IN
       \/ \* the strategy completes: a file is at output_path (an existing
          \* file may be kept as it is)
          /\ \E w \in {t} \cup ({files[video_file]} \ {0}) :
                files' = [files EXCEPT ![video_file] = w]
          /\ Invoked(t, strategies[k], "ok")
          /\ temp_files' = [temp_files EXCEPT ![t] = Append(@, video_file)]
          /\ pc' = [pc EXCEPT ![t] = "extract_audio_ffmpeg"]
          /\ UNCHANGED <<idx, last_error, result, pauses>>
       \/ \* the strategy raises, having written to output_path or not
          /\ \E wrote \in BOOLEAN :
                files' = IF wrote THEN [files EXCEPT ![video_file] = t] ELSE files
          /\ Invoked(t, strategies[k], "fail")
          /\ last_error' = [last_error EXCEPT ![t] = LastError(@, k)]
          /\ pauses' = [pauses EXCEPT ![t] = @ + PauseAfter(k)]
          /\ IF k < Len(strategies)
             THEN /\ idx' = [idx EXCEPT ![t] = k + 1]
                  /\ UNCHANGED <<pc, result>>
             ELSE /\ Except(t, AcquisitionMessage(last_error'[t]))
                  /\ UNCHANGED idx
          /\ UNCHANGED temp_files
    /\ UNCHANGED <<calls, inst, url, video_id, transcript, outcome,
                   model_state, rm_failed, captions, previous, caller_state>>

\* extract_audio_ffmpeg(video_path, "temp_audio.wav") and temp_files.append
extract_audio_ffmpeg(t) ==
    /\ pc[t] = "extract_audio_ffmpeg"
    /\ \/ \* ffmpeg exits 0: needs its input file
          /\ files[video_file] # 0
          /\ files' = [files EXCEPT ![audio_file] = t]
          /\ Invoked(t, "extract_audio_ffmpeg", "ok")
          /\ temp_files' = [temp_files EXCEPT ![t] = Append(@, audio_file)]
          /\ pc' = [pc EXCEPT ![t] = "transcribe_audio_whisper"]
          /\ UNCHANGED result
       \/ \* CalledProcessError: non-zero exit, output file written or not
          /\ \E wrote \in BOOLEAN :
                files' = IF wrote THEN [files EXCEPT ![audio_file] = t] ELSE files
          /\ Invoked(t, "extract_audio_ffmpeg", "nonzero")
          /\ Except(t, ExtractionMessage(CalledProcessError))
          /\ UNCHANGED temp_files
       \/ \* FileNotFoundError: no ffmpeg executable
          /\ Invoked(t, "extract_audio_ffmpeg", "missing")
          /\ Except(t, <<"FFmpeg não encontrado. Instale o FFmpeg.">>)
          /\ UNCHANGED <<files, temp_files>>
    /\ UNCHANGED <<calls, inst, url, video_id, transcript, idx, last_error,
                   outcome, model_state, rm_failed, pauses, captions, previous,
                   caller_state>>

\* transcribe_audio_whisper, the test `if self.whisper_model is None`
transcribe_audio_whisper(t) ==
    /\ pc[t] = "transcribe_audio_whisper"
    /\ pc' = [pc EXCEPT ![t] = IF whisper_model[inst[t]] = 0
                               THEN "load_model" ELSE "transcribe"]
    /\ UNCHANGED <<calls, inst, url, locals, outcome, files, model_state,
                   trace, rm_failed, pauses, captions, previous, caller_state>>

\* self.whisper_model = whisper.load_model(self.whisper_model_size)
load_model(t) ==
    /\ pc[t] = "load_model"
    /\ LET i == inst[t] IN
       \/ /\ constructed' = [constructed EXCEPT ![i] = @ + 1]
          /\ whisper_model' = [whisper_model EXCEPT ![i] = constructed[i] + 1]
          /\ Invoked(t, "load_model", "ok")
          /\ pc' = [pc EXCEPT ![t] = "transcribe"]
          /\ UNCHANGED result
       \/ /\ Invoked(t, "load_model", "fail")
          /\ Except(t, <<"cause of load_model">>)
          /\ whisper_model' = [whisper_model EXCEPT ![i] = AfterFailedLoad(@)]
          /\ UNCHANGED constructed
    /\ UNCHANGED <<calls, inst, url, video_id, transcript, temp_files, idx,
                   last_error, outcome, files, used_model, rm_failed, pauses,
                   captions, previous, caller_state>>

\* self.whisper_model.transcribe(audio_path, ...) inside its try statement
transcribe(t) ==
    /\ pc[t] = "transcribe"
    /\ used_model' = [used_model EXCEPT ![t] = whisper_model[inst[t]]]
    /\ \/ \* inference succeeds: needs the audio file
          /\ files[audio_file] # 0
          /\ \E w \in WhisperTexts :
                transcript' = [transcript EXCEPT ![t] = Some(w)]
          /\ Invoked(t, "transcribe", "ok")
          /\ pc' = [pc EXCEPT ![t] = "summarize_with_openai"]
          /\ UNCHANGED result
       \/ /\ Invoked(t, "transcribe", "fail")
          /\ Except(t, <<"Erro na transcrição: ", "cause of transcribe">>)
          /\ UNCHANGED transcript
    /\ UNCHANGED <<calls, inst, url, video_id, temp_files, idx, last_error,
                   outcome, files, whisper_model, constructed, rm_failed, pauses,
                   captions, previous, caller_state>>

\* summary = self.summarize_with_openai(transcript) and the return statement
summarize_with_openai(t) ==
    /\ pc[t] = "summarize_with_openai"
    /\ \/ \* the completion is delivered: the service accepts the key
          /\ KeyAccepted(openai_key)
          /\ Invoked(t, "summarize_with_openai", "ok")
          /\ result' = [result EXCEPT ![t] =
                SuccessResult(video_id[t], transcript[t].text, <<"summary">>,
                              Method(temp_files[t]))]
          /\ pc' = [pc EXCEPT ![t] = "finally"]
       \/ /\ Invoked(t, "summarize_with_openai", "fail")
          /\ Except(t, <<"Erro ao gerar resumo com OpenAI: ", "cause of summarize">>)
    /\ UNCHANGED <<calls, inst, url, video_id, transcript, temp_files, idx,
                   last_error, outcome, files, model_state, rm_failed, pauses,
                   captions, previous, caller_state>>

Range(s) == {s[n] : n \in 1..Len(s)}

\* one try statement around the whole loop: the first os.remove that raises
\* ends the loop
RemovedUntilFirstFailure(tf, failing) ==
    {tf[n] : n \in {m \in 1..Len(tf) : \A j \in 1..m : tf[j] \notin failing}}

\* the loop of the finally clause: each recorded path is removed unless its
\* own os.remove raises (try/except inside the loop)
Removed(tf, failing) == Range(tf) \ failing

\* a caller-imposed abort (KeyboardInterrupt, a timeout exception) delivered
\* while the call is inside its try statement: no except clause catches it,
\* the finally clause runs, then it propagates; the interrupted download or
\* extraction may have written to its output path
abort(t) ==
    /\ pc[t] \in {"get_youtube_transcript", "download_video", "extract_audio_ffmpeg",
                  "transcribe_audio_whisper", "load_model", "transcribe",
                  "summarize_with_openai"}
    /\ \E wrote \in BOOLEAN :
         files' = IF wrote /\ pc[t] = "download_video"
                  THEN [files EXCEPT ![video_file] = t]
                  ELSE IF wrote /\ pc[t] = "extract_audio_ffmpeg"
                  THEN [files EXCEPT ![audio_file] = t]
                  ELSE files
    /\ pc' = [pc EXCEPT ![t] = "finally_abort"]
    /\ video_id' = [video_id EXCEPT ![t] = << >>]
    /\ transcript' = [transcript EXCEPT ![t] = None]
    /\ idx' = [idx EXCEPT ![t] = 0]
    /\ last_error' = [last_error EXCEPT ![t] = NoError]
    /\ pauses' = [pauses EXCEPT ![t] = 0]
    /\ trace' = [trace EXCEPT ![t] = << >>]
    /\ captions' = [captions EXCEPT ![t] = NoCaptions]
    /\ UNCHANGED <<calls, inst, url, temp_files, result, outcome, model_state,
                   rm_failed, previous, caller_state>>

\* the finally clause: remove every recorded file that exists, swallowing
\* the errors of os.remove; then the call returns its record, or the
\* exception that was propagating leaves process_video
cleanup(t) ==
    /\ pc[t] \in {"finally", "finally_abort"}
    /\ \E failing \in SUBSET {p \in Range(temp_files[t]) : files[p] # 0} :
         /\ files' = [p \in Paths |->
                        IF p \in Removed(temp_files[t], failing) THEN 0 ELSE files[p]]
         /\ rm_failed' = [rm_failed EXCEPT ![t] = failing]
    /\ outcome' = [outcome EXCEPT ![t] =
            IF pc[t] = "finally"
            THEN [kind |-> "returned", value |-> result[t]]
            ELSE [kind |-> "raised", msg |-> <<"KeyboardInterrupt">>]]
    /\ pc' = [pc EXCEPT ![t] = "idle"]
    /\ video_id' = [video_id EXCEPT ![t] = << >>]
    /\ transcript' = [transcript EXCEPT ![t] = None]
    /\ temp_files' = [temp_files EXCEPT ![t] = << >>]
    /\ idx' = [idx EXCEPT ![t] = 0]
    /\ last_error' = [last_error EXCEPT ![t] = NoError]
    /\ result' = [result EXCEPT ![t] = NoResult]
    /\ trace' = [trace EXCEPT ![t] = << >>]
    /\ pauses' = [pauses EXCEPT ![t] = 0]
    /\ captions' = [captions EXCEPT ![t] = NoCaptions]
    /\ previous' = [previous EXCEPT ![t] =
            IF calls[t] > 0
            THEN [url |-> url[t], captions |-> captions[t], outcome |-> outcome'[t]]
            ELSE NoPrevious]
    /\ UNCHANGED <<calls, inst, url, model_state, caller_state>>

Step(t) ==
    \/ process_video(t)
    \/ get_youtube_transcript(t)
    \/ download_video(t)
    \/ extract_audio_ffmpeg(t)
    \/ transcribe_audio_whisper(t)
    \/ load_model(t)
    \/ transcribe(t)
    \/ summarize_with_openai(t)
    \/ abort(t)
    \/ cleanup(t)

(* --------------------------- specifications --------------------------- *)

Next == \E t \in Threads : Step(t)

\* one caller: its process_video calls follow one another
Spec == Init /\ [][Next]_vars

\* two callers, each running process_video once, at the same time
InitConc ==
    /\ calls = [t \in Threads |-> 1]
    /\ pc = [t \in Threads |-> "idle"]
    /\ inst = [t \in Threads |-> 1]
    /\ url = [t \in Threads |-> << >>]
    /\ video_id = [t \in Threads |-> << >>]
    /\ transcript = [t \in Threads |-> None]
    /\ temp_files = [t \in Threads |-> << >>]
    /\ idx = [t \in Threads |-> 0]
    /\ last_error = [t \in Threads |-> NoError]
    /\ result = [t \in Threads |-> NoResult]
    /\ outcome = [t \in Threads |-> NoOutcome]
    /\ files = [p \in Paths |-> 0]
    /\ whisper_model = [i \in Instances |-> 0]
    /\ constructed = [i \in Instances |-> 0]
    /\ used_model = [t \in Threads |-> 0]
    /\ trace = [t \in Threads |-> << >>]
    /\ rm_failed = [t \in Threads |-> {}]
    /\ pauses = [t \in Threads |-> 0]
    /\ captions = [t \in Threads |-> NoCaptions]
    /\ previous = [t \in Threads |-> NoPrevious]
    /\ request = [t \in Threads |-> NoRequest]
    /\ response = [t \in Threads |-> NoResponse]
    /\ loop = 0
    /\ transcriber_instance = 0
    /\ openai_key = TRUE
    /\ output_file = NoFile

SpecConc == InitConc /\ [][Next]_vars

\* _extract_video_id applied to the string the caller holds
extract_video_id(t) ==
    /\ pc[t] = "idle"
    /\ calls[t] > 0
    /\ LET m == _extract_video_id(url[t]) IN
       outcome' = [outcome EXCEPT ![t] =
            IF m.matched THEN [kind |-> "returned", value |-> m.group]
            ELSE [kind |-> "raised", msg |-> <<"URL do YouTube inválida">>]]
    /\ calls' = [calls EXCEPT ![t] = @ - 1]
    /\ UNCHANGED <<pc, inst, url, locals, files, model_state, trace, rm_failed,
                   pauses, captions, previous, caller_state>>

\* one call of _extract_video_id on each string of UrlInputs
InitUrl ==
    /\ \E u \in UrlInputs : url = [t \in Threads |-> IF t = 1 THEN u ELSE << >>]
    /\ calls = [t \in Threads |-> IF t = 1 THEN 1 ELSE 0]
    /\ pc = [t \in Threads |-> "idle"]
    /\ inst = [t \in Threads |-> 1]
    /\ video_id = [t \in Threads |-> << >>]
    /\ transcript = [t \in Threads |-> None]
    /\ temp_files = [t \in Threads |-> << >>]
    /\ idx = [t \in Threads |-> 0]
    /\ last_error = [t \in Threads |-> NoError]
    /\ result = [t \in Threads |-> NoResult]
    /\ outcome = [t \in Threads |-> NoOutcome]
    /\ files = [p \in Paths |-> 0]
    /\ whisper_model = [i \in Instances |-> 0]
    /\ constructed = [i \in Instances |-> 0]
    /\ used_model = [t \in Threads |-> 0]
    /\ trace = [t \in Threads |-> << >>]
    /\ rm_failed = [t \in Threads |-> {}]
    /\ pauses = [t \in Threads |-> 0]
    /\ captions = [t \in Threads |-> NoCaptions]
    /\ previous = [t \in Threads |-> NoPrevious]
    /\ request = [t \in Threads |-> NoRequest]
    /\ response = [t \in Threads |-> NoResponse]
    /\ loop = 0
    /\ transcriber_instance = 0
    /\ openai_key = TRUE
    /\ output_file = NoFile

NextUrl == \E t \in Threads : extract_video_id(t)

SpecUrl == InitUrl /\ [][NextUrl]_vars

(* ------------------------------ callers ------------------------------ *)

\* handlers declared with def, which the framework runs in a thread pool
RunnableInThreadPool(t) == TRUE

\* the handlers are coroutines (async def) of one event loop and
\* process_video blocks: a coroutine runs when the loop is free or its own
Runnable(t) == loop \in {0, t}

\* get_transcriber: the object the global holds, a new one when it holds
\* none and the key is configured, else it raises HTTPException
GetTranscriber ==
    IF transcriber_instance # 0 THEN [raised |-> FALSE, instance |-> transcriber_instance]
    ELSE IF openai_key THEN [raised |-> FALSE, instance |-> 1]
    ELSE [raised |-> TRUE, instance |-> 0]

\* an exception ends the handler: caught, it becomes the error response
Handled(t, e) ==
    response' = [response EXCEPT ![t] =
        IF HandlerCatches(e) THEN VideoResponseError(e.msg)
        ELSE [kind |-> "raised", exc |-> e.exc]]

\* POST /transcribe up to the call of process_video
transcribe_video(t) ==
    /\ pc[t] = "idle"
    /\ calls[t] > 0
    /\ request[t] = NoRequest
    /\ Runnable(t)
    /\ \E r \in Requests("/transcribe") :
         LET g == GetTranscriber IN
         IF g.raised
         THEN /\ \E e \in NoKeyConfigured : Handled(t, e)
              /\ calls' = [calls EXCEPT ![t] = @ - 1]
              /\ UNCHANGED <<pc, inst, url, locals, outcome, files, model_state,
                             trace, rm_failed, pauses, captions, previous,
                             request, loop, transcriber_instance>>
         ELSE /\ transcriber_instance' = g.instance
              /\ Enter(t, g.instance, r.url)
              /\ IF _extract_video_id(r.url).matched
                 THEN /\ request' = [request EXCEPT ![t] = [r EXCEPT !.started = TRUE]]
                      /\ loop' = t
                      /\ response' = [response EXCEPT ![t] = NoResponse]
                 ELSE /\ Handled(t, InvalidUrl)
                      /\ UNCHANGED <<request, loop>>
    /\ UNCHANGED <<openai_key, output_file>>

\* POST /transcribe from the return of process_video: the response built
\* from the record
transcribe_video_return(t) ==
    /\ pc[t] = "idle"
    /\ request[t].endpoint = "/transcribe"
    /\ outcome[t].kind = "returned"
    /\ response' = [response EXCEPT ![t] =
            IF outcome[t].value.success THEN VideoResponseOk(outcome[t].value)
            ELSE VideoResponseFailed(outcome[t].value)]
    /\ request' = [request EXCEPT ![t] = NoRequest]
    /\ loop' = 0
    /\ UNCHANGED <<pc, calls, inst, url, locals, outcome, files, model_state,
                   trace, rm_failed, pauses, captions, previous,
                   transcriber_instance, openai_key, output_file>>

\* POST /transcribe-async: the task is added and the task id answered
transcribe_video_async(t) ==
    /\ pc[t] = "idle"
    /\ calls[t] > 0
    /\ request[t] = NoRequest
    /\ Runnable(t)
    /\ \E r \in Requests("/transcribe-async") :
         request' = [request EXCEPT ![t] = r]
    /\ response' = [response EXCEPT ![t] = [kind |-> "task", status |-> "processing"]]
    /\ UNCHANGED <<pc, calls, inst, url, locals, outcome, files, model_state,
                   trace, rm_failed, pauses, captions, previous, loop,
                   transcriber_instance, openai_key, output_file>>

\* the background task up to the call of process_video; its except clause
\* logs the exception
process_video_background(t) ==
    /\ pc[t] = "idle"
    /\ request[t].endpoint = "/transcribe-async"
    /\ ~request[t].started
    /\ Runnable(t)
    /\ LET g == GetTranscriber IN
       IF g.raised
       THEN /\ calls' = [calls EXCEPT ![t] = @ - 1]
            /\ request' = [request EXCEPT ![t] = NoRequest]
            /\ UNCHANGED <<pc, inst, url, locals, outcome, files, model_state,
                           trace, rm_failed, pauses, captions, previous,
                           loop, transcriber_instance>>
       ELSE /\ transcriber_instance' = g.instance
            /\ Enter(t, g.instance, request[t].url)
            /\ IF _extract_video_id(request[t].url).matched
               THEN /\ request' = [request EXCEPT ![t].started = TRUE]
                    /\ loop' = t
               ELSE /\ request' = [request EXCEPT ![t] = NoRequest]
                    /\ UNCHANGED loop
    /\ UNCHANGED <<response, openai_key, output_file>>

\* the background task from the return of process_video: the result is
\* logged
process_video_background_return(t) ==
    /\ pc[t] = "idle"
    /\ request[t].endpoint = "/transcribe-async"
    /\ request[t].started
    /\ outcome[t].kind = "returned"
    /\ request' = [request EXCEPT ![t] = NoRequest]
    /\ loop' = 0
    /\ UNCHANGED <<pc, calls, inst, url, locals, outcome, files, model_state,
                   trace, rm_failed, pauses, captions, previous, response,
                   transcriber_instance, openai_key, output_file>>

\* the command line (src/local/transcribe.py) up to the call of
\* process_video: the transcriber is built with the key given, or with the
\* placeholder "dummy"
main(t) ==
    /\ pc[t] = "idle"
    /\ calls[t] > 0
    /\ request[t] = NoRequest
    /\ \E u \in URLS :
         /\ Enter(t, 1, u)
         /\ IF _extract_video_id(u).matched
            THEN /\ request' = [request EXCEPT ![t] = [endpoint |-> "cli", url |-> u]]
                 /\ response' = [response EXCEPT ![t] = NoResponse]
            ELSE /\ response' = [response EXCEPT ![t] =
                        [kind |-> "raised", exc |-> InvalidUrl.exc]]
                 /\ UNCHANGED request
    /\ UNCHANGED <<loop, transcriber_instance, openai_key, output_file>>

\* the command line from the return of process_video: a failure record is
\* printed, a success record is saved to the output file
main_return(t) ==
    /\ pc[t] = "idle"
    /\ request[t].endpoint = "cli"
    /\ outcome[t].kind \in {"returned", "raised"}
    /\ IF outcome[t].kind = "returned" /\ outcome[t].value.success
       THEN /\ output_file' = [saved |-> TRUE,
                                transcript |-> outcome[t].value.transcript,
                                summary |-> outcome[t].value.summary]
            /\ response' = [response EXCEPT ![t] = [kind |-> "exit", saved |-> TRUE]]
       ELSE /\ response' = [response EXCEPT ![t] =
                    IF outcome[t].kind = "raised"
                    THEN [kind |-> "raised", exc |-> "KeyboardInterrupt"]
                    ELSE [kind |-> "exit", saved |-> FALSE]]
            /\ UNCHANGED output_file
    /\ request' = [request EXCEPT ![t] = NoRequest]
    /\ UNCHANGED <<pc, calls, inst, url, locals, outcome, files, model_state,
                   trace, rm_failed, pauses, captions, previous, loop,
                   transcriber_instance, openai_key>>

\* the statements of a call in progress: each ends when the external call it
\* makes returns or raises
Stage(t) ==
    \/ get_youtube_transcript(t)
    \/ download_video(t)
    \/ extract_audio_ffmpeg(t)
    \/ transcribe_audio_whisper(t)
    \/ load_model(t)
    \/ transcribe(t)
    \/ summarize_with_openai(t)
    \/ cleanup(t)

NextLive == \E t \in Threads : process_video(t) \/ Stage(t)

\* one caller whose calls are not interrupted and whose external calls all
\* return or raise
SpecLive == Init /\ [][NextLive]_vars /\ \A t \in Threads : WF_vars(Stage(t))

\* the state of a process before its first call, by the key it was given
InitProcess(requests) ==
    /\ openai_key \in BOOLEAN
    /\ calls = requests
    /\ pc = [t \in Threads |-> "idle"]
    /\ inst = [t \in Threads |-> 1]
    /\ url = [t \in Threads |-> << >>]
    /\ video_id = [t \in Threads |-> << >>]
    /\ transcript = [t \in Threads |-> None]
    /\ temp_files = [t \in Threads |-> << >>]
    /\ idx = [t \in Threads |-> 0]
    /\ last_error = [t \in Threads |-> NoError]
    /\ result = [t \in Threads |-> NoResult]
    /\ outcome = [t \in Threads |-> NoOutcome]
    /\ files = [p \in Paths |-> 0]
    /\ whisper_model = [i \in Instances |-> 0]
    /\ constructed = [i \in Instances |-> 0]
    /\ used_model = [t \in Threads |-> 0]
    /\ trace = [t \in Threads |-> << >>]
    /\ rm_failed = [t \in Threads |-> {}]
    /\ pauses = [t \in Threads |-> 0]
    /\ captions = [t \in Threads |-> NoCaptions]
    /\ previous = [t \in Threads |-> NoPrevious]
    /\ request = [t \in Threads |-> NoRequest]
    /\ response = [t \in Threads |-> NoResponse]
    /\ loop = 0
    /\ transcriber_instance = 0
    /\ output_file = NoFile

\* the API server: two clients, each posting one request to either endpoint
InitServer == InitProcess([t \in Threads |-> 1])

NextServer ==
    \E t \in Threads :
        \/ transcribe_video(t)
        \/ transcribe_video_return(t)
        \/ transcribe_video_async(t)
        \/ process_video_background(t)
        \/ process_video_background_return(t)
        \/ Stage(t)

SpecServer == InitServer /\ [][NextServer]_vars

\* the command line: one run, which the user may interrupt
InitCli == InitProcess([t \in Threads |-> IF t = 1 THEN 1 ELSE 0])

NextCli == \E t \in Threads : main(t) \/ main_return(t) \/ Stage(t) \/ abort(t)

SpecCli == InitCli /\ [][NextCli]_vars

(* ------------------------------- claims ------------------------------- *)

Returned(t) == pc[t] = "idle" /\ outcome[t].kind = "returned"

InvalidUrlMessage == <<"URL do YouTube inválida">>

\* the strategy attempts of the call in progress, in the order made
DownloadAttempts(t) ==
    SelectSeq(trace[t], LAMBDA e : e.stage \in
        {"_dl_basic", "_dl_with_headers", "_dl_with_browser_cookies", "_dl_with_retries"})

StageCount(t, stage) == Cardinality({n \in 1..Len(trace[t]) : trace[t][n].stage = stage})

\* C1: when process_video has returned (and no os.remove of its cleanup
\* failed), neither the downloaded video file nor the extracted audio file
\* exists, whatever the failing step had written.
C1_CleanupInvariant ==
    \A t \in Threads :
        (Returned(t) /\ rm_failed[t] = {}) => \A p \in Paths : files[p] = 0

\* C2: process_video never raises: every call ends by returning a record,
\* and a failure record carries a non-empty error message.
C2_NeverRaises ==
    \A t \in Threads :
        /\ outcome[t].kind # "raised"
        /\ (outcome[t].kind = "returned" /\ ~outcome[t].value.success)
              => outcome[t].value.error # << >>

\* C3: a call whose URL matches no video-id pattern returns success=false
\* with the invalid-URL message, invokes no stage and creates no file.
C3_InvalidUrlReturnsFailure ==
    \A t \in Threads :
        (pc[t] = "idle" /\ url[t] # << >> /\ ~_extract_video_id(url[t]).matched)
           => /\ outcome[t].kind = "returned"
              /\ ~outcome[t].value.success
              /\ outcome[t].value.error = InvalidUrlMessage
              /\ trace[t] = << >>
              /\ \A p \in Paths : files[p] = 0

\* C4: two runs that overlap in time never hold the same temporary file
\* path: the paths recorded by one are distinct from the other's.
C4_DistinctTempPaths ==
    \A t, u \in Threads :
        t # u => Range(temp_files[t]) \cap Range(temp_files[u]) = {}

\* C5: however transcribe_audio_whisper calls interleave on one transcriber,
\* its speech model is constructed at most once.
C5_ModelConstructedOnce ==
    \A i \in Instances : constructed[i] <= 1

\* C6: the stages a run invokes form a path of the transition table: caption
\* fetch first; download only after a caption miss; extraction only after a
\* successful download; transcription (with its model load) only after a
\* successful extraction; summarization only after captions were found or
\* transcription succeeded; nothing after a failed download chain,
\* extraction, load or transcription; caption fetch, extraction,
\* transcription and summarization at most once each.
C6_TransitionTable ==
    \A t \in Threads :
        LET tr == trace[t]
            IsDl(e) == e.stage \in {"_dl_basic", "_dl_with_headers",
                                    "_dl_with_browser_cookies", "_dl_with_retries"}
            Follows(prev, e) ==
                CASE e.stage = "get_youtube_transcript" -> FALSE
                  [] e.stage = "_dl_basic" ->
                        /\ prev.stage = "get_youtube_transcript"
                        /\ prev.res \in {"unavailable", "empty"}
                  [] IsDl(e) /\ e.stage # "_dl_basic" ->
                        IsDl(prev) /\ prev.res = "fail"
                  [] e.stage = "extract_audio_ffmpeg" ->
                        IsDl(prev) /\ prev.res = "ok"
                  [] e.stage = "load_model" ->
                        prev.stage = "extract_audio_ffmpeg" /\ prev.res = "ok"
                  [] e.stage = "transcribe" ->
                        \/ prev.stage = "extract_audio_ffmpeg" /\ prev.res = "ok"
                        \/ prev.stage = "load_model" /\ prev.res = "ok"
                  [] e.stage = "summarize_with_openai" ->
                        \/ prev.stage = "get_youtube_transcript" /\ prev.res = "found"
                        \/ prev.stage = "transcribe" /\ prev.res = "ok"
                  [] OTHER -> FALSE
            Terminal(e) ==
                \/ e.stage = "_dl_with_retries" /\ e.res = "fail"
                \/ e.stage = "extract_audio_ffmpeg" /\ e.res # "ok"
                \/ e.stage \in {"load_model", "transcribe"} /\ e.res = "fail"
                \/ e.stage = "summarize_with_openai"
        IN  /\ tr # << >> => tr[1].stage = "get_youtube_transcript"
            /\ \A n \in 2..Len(tr) : Follows(tr[n - 1], tr[n])
            /\ \A stage \in {"get_youtube_transcript", "extract_audio_ffmpeg",
                             "transcribe", "summarize_with_openai"} :
                  StageCount(t, stage) <= 1
            /\ (tr # << >> /\ Terminal(tr[Len(tr)]))
                  => /\ pc[t] = "finally"
                     /\ result[t].success = (tr[Len(tr)].res = "ok")

\* a run went through every stage of the speech-model path and summarized
C6_Witness ==
    /\ pc[1] = "finally"
    /\ Len(trace[1]) = 7
    /\ trace[1][2].res = "fail"
    /\ trace[1][3].res = "ok"
    /\ trace[1][5].stage = "load_model"
    /\ trace[1][7] = [stage |-> "summarize_with_openai", res |-> "ok"]

\* C7: a successful result is tagged "youtube_transcript" exactly when the
\* caption fetch of the run found captions, and "whisper" otherwise.
C7_MethodTag ==
    \A t \in Threads :
        (pc[t] = "finally" /\ result[t].success)
           => LET found == trace[t][1].res = "found" IN
              /\ result[t].method = "youtube_transcript" <=> found
              /\ result[t].method = "whisper" <=> ~found

\* a successful run whose caption fetch returned nothing usable
C7_Witness ==
    /\ pc[1] = "finally"
    /\ result[1].success
    /\ result[1].method = "whisper"
    /\ trace[1][1].res = "unavailable"

\* C8: a returned record has exactly one of the two shapes: success with
\* transcript, summary and method and no error; or failure with error and
\* neither transcript nor summary; video_id is the identifier of the URL.
C8_ResultShape ==
    \A t \in Threads :
        Returned(t)
           => LET r == outcome[t].value
                  keys == DOMAIN r
              IN  /\ r.success => /\ {"transcript", "summary", "method"} \subseteq keys
                                  /\ "error" \notin keys
                  /\ ~r.success => /\ "error" \in keys
                                   /\ keys \cap {"transcript", "summary"} = {}
                  /\ r.video_id = _extract_video_id(url[t]).group

\* a failure record was returned after the download chain was exhausted
C8_Witness ==
    /\ Returned(1)
    /\ ~outcome[1].value.success
    /\ outcome[1].value.error[1] = "Erro ao baixar vídeo: "
    /\ outcome[1].value.video_id = <<"abc123">>

\* C9: the strategies are attempted in the order Basic, Headers,
\* BrowserCookies, RetriesWithBackoff; strategy k is attempted exactly when
\* strategies 1..k-1 were attempted and failed; after a strategy completes
\* the call returns the destination path and attempts no other.
C9_StrategyOrder ==
    \A t \in Threads :
        LET d == DownloadAttempts(t)
            order == <<"_dl_basic", "_dl_with_headers",
                       "_dl_with_browser_cookies", "_dl_with_retries">>
        IN  /\ Len(d) <= 4
            /\ \A n \in 1..Len(d) :
                  /\ d[n].stage = order[n]
                  /\ n < Len(d) => d[n].res = "fail"
            /\ (d # << >> /\ Len(d) < 4 /\ d[Len(d)].res = "fail")
                  => pc[t] = "download_video" /\ idx[t] = Len(d) + 1
            /\ (d # << >> /\ d[Len(d)].res = "ok")
                  => pc[t] # "download_video" /\ temp_files[t][1] = video_file

\* the third strategy succeeded after the first two failed
C9_Witness ==
    /\ Len(DownloadAttempts(1)) = 3
    /\ DownloadAttempts(1)[3] = [stage |-> "_dl_with_browser_cookies", res |-> "ok"]
    /\ pc[1] = "extract_audio_ffmpeg"

\* C10: download_video raises exactly when all four strategies failed, the
\* raised message wraps the failure of the fourth strategy and nothing of
\* the first three; otherwise it returns the destination path.
C10_AcquisitionError ==
    \A t \in Threads :
        LET d == DownloadAttempts(t)
            allFailed == Len(d) = 4 /\ \A n \in 1..4 : d[n].res = "fail"
            raised == /\ pc[t] = "finally"
                      /\ ~result[t].success
                      /\ result[t].error[1] = "Erro ao baixar vídeo: "
        IN  /\ raised <=> allFailed
            /\ raised => result[t].error =
                            <<"Erro ao baixar vídeo: ", "cause of ", "_dl_with_retries">>
            /\ (d # << >> /\ d[Len(d)].res = "ok")
                  => temp_files[t][1] = video_file

\* all four strategies failed and the failure record is built
C10_Witness ==
    /\ pc[1] = "finally"
    /\ Len(DownloadAttempts(1)) = 4
    /\ DownloadAttempts(1)[4].res = "fail"
    /\ last_error[1].strategy = 4

StrategyNames ==
    {"_dl_basic", "_dl_with_headers", "_dl_with_browser_cookies", "_dl_with_retries"}

AcquisitionFailed(t) ==
    /\ pc[t] = "finally"
    /\ ~result[t].success
    /\ result[t].error[1] = "Erro ao baixar vídeo: "

LastInvoked(t) == trace[t][Len(trace[t])]

\* C11: a run whose caption fetch reported unavailable enters download_video
\* exactly once (its first strategy is attempted once), and an acquisition
\* failure is reported only when each of the four strategies was attempted.
C11_DownloadCalledOnce ==
    \A t \in Threads :
        /\ StageCount(t, "_dl_basic") <= 1
        /\ (pc[t] = "finally" /\ trace[t][1].res = "unavailable")
              => /\ StageCount(t, "_dl_basic") = 1
                 /\ AcquisitionFailed(t)
                       => \A name \in StrategyNames : StageCount(t, name) = 1

\* captions unavailable, one download_video call, all four strategies failed
C11_Witness ==
    /\ AcquisitionFailed(1)
    /\ trace[1][1].res = "unavailable"
    /\ Len(trace[1]) = 5
    /\ StageCount(1, "_dl_basic") = 1

\* C12: once the caption fetch has found captions the run only summarizes:
\* no download, extraction, model load or transcription is invoked, no
\* temporary file is recorded, and its steps change neither the working
\* directory nor any speech model.
C12_FastPath ==
    /\ [](\A t \in Threads :
            (trace[t] # << >> /\ trace[t][1].res = "found")
               => /\ temp_files[t] = << >>
                  /\ pc[t] \in {"summarize_with_openai", "finally"}
                  /\ \A n \in 2..Len(trace[t]) :
                        trace[t][n].stage = "summarize_with_openai")
    /\ [][\A t \in Threads :
            (trace[t] # << >> /\ trace[t][1].res = "found" /\ pc'[t] # pc[t])
               => /\ files' = files
                  /\ whisper_model' = whisper_model
                  /\ constructed' = constructed]_vars

\* a caption run summarized and built its success record
C12_Witness ==
    /\ pc[1] = "finally"
    /\ result[1].success
    /\ result[1].method = "youtube_transcript"
    /\ Len(trace[1]) = 2
    /\ trace[1][1].res = "found"

\* C13: the caption stage never ends the run: whatever the retrieval does,
\* get_youtube_transcript builds no failure record, and when it yields None
\* the run continues with download_video.
C13_CaptionFailureNotFatal ==
    [][\A t \in Threads :
         (pc[t] = "get_youtube_transcript" /\ Len(trace'[t]) = 1)
            => /\ result'[t] = result[t]
               /\ pc'[t] \in {"download_video", "summarize_with_openai"}
               /\ transcript'[t].isNone
                     => /\ pc'[t] = "download_video"
                        /\ idx'[t] = 1
                        /\ trace'[t][1].res = "unavailable"]_vars

\* the retrieval failed and the run is about to try the first strategy
C13_Witness ==
    /\ pc[1] = "download_video"
    /\ transcript[1].isNone
    /\ trace[1] = <<[stage |-> "get_youtube_transcript", res |-> "unavailable"]>>
    /\ idx[1] = 1

\* C14: a failed strategy attempt retains nothing: it leaves the working
\* directory (in particular the destination path), the recorded temporary
\* files and the speech models as they were before the attempt.
C14_StrategiesIndependent ==
    [][\A t \in Threads :
         (/\ pc[t] = "download_video"
          /\ Len(trace'[t]) = Len(trace[t]) + 1
          /\ trace'[t][Len(trace'[t])].res = "fail")
            => /\ files' = files
               /\ temp_files' = temp_files
               /\ whisper_model' = whisper_model]_vars

\* C15: download_video pauses once after each failed attempt that is followed
\* by another attempt: never after a successful attempt and not after the
\* failure of the last strategy.
C15_PauseBetweenAttempts ==
    \A t \in Threads :
        LET d == DownloadAttempts(t) IN
        /\ pauses[t] = Cardinality({n \in 1..Len(d) :
                           d[n].res = "fail" /\ d[n].stage # "_dl_with_retries"})
        /\ pc[t] = "download_video" => pauses[t] = idx[t] - 1

\* all four strategies failed: three pauses, none after the last failure
C15_Witness ==
    /\ AcquisitionFailed(1)
    /\ Len(DownloadAttempts(1)) = 4
    /\ pauses[1] = 3

\* C16: after an abort delivered inside the try statement the cleanup has
\* run and (when no os.remove failed) no temporary file is left once the
\* exception has left process_video.
C16_AbortCleansUp ==
    \A t \in Threads :
        (/\ pc[t] = "idle"
         /\ outcome[t].kind = "raised"
         /\ outcome[t].msg = <<"KeyboardInterrupt">>
         /\ rm_failed[t] = {})
           => \A p \in Paths : files[p] = 0

\* C17: the cleanup swallows the failure of an os.remove: every other
\* recorded file is removed all the same, and the call returns the record
\* that was built before the cleanup.
C17_CleanupBestEffort ==
    [][\A t \in Threads :
         (pc[t] = "finally" /\ pc'[t] = "idle")
            => /\ outcome'[t] = [kind |-> "returned", value |-> result[t]]
               /\ rm_failed'[t] \subseteq Range(temp_files[t])
               /\ \A p \in Range(temp_files[t]) \ rm_failed'[t] : files'[p] = 0]_vars

\* removing the video file failed; the audio file was removed and the
\* success record returned
C17_Witness ==
    /\ Returned(1)
    /\ outcome[1].value.success
    /\ outcome[1].value.method = "whisper"
    /\ rm_failed[1] = {video_file}
    /\ files[video_file] # 0
    /\ files[audio_file] = 0

\* C18: over the calls of one process the speech model is constructed at
\* most once, whichever transcriber objects the calls go through.
C18_ModelLoadedOncePerProcess ==
    /\ \A i \in Instances : constructed[i] <= 1
    /\ Cardinality({i \in Instances : constructed[i] > 0}) <= 1

\* C19: extract_audio_ffmpeg fails exactly when ffmpeg is missing or exits
\* non-zero, and the error of a non-zero exit contains the captured stderr.
C19_ExtractionError ==
    \A t \in Threads :
        (trace[t] # << >> /\ LastInvoked(t).stage = "extract_audio_ffmpeg")
           => /\ LastInvoked(t).res = "ok" => pc[t] = "transcribe_audio_whisper"
              /\ LastInvoked(t).res # "ok" => pc[t] = "finally" /\ ~result[t].success
              /\ LastInvoked(t).res = "nonzero"
                    => \E n \in 1..Len(result[t].error) :
                          result[t].error[n] = CalledProcessError.stderr

\* C20: the error of a failure record is exactly the message of the failure
\* that ended the run, and a call produces its record once, when it returns.
C20_TerminalErrorOnly ==
    /\ [](\A t \in Threads :
            (pc[t] = "finally" /\ ~result[t].success)
               => LET e == LastInvoked(t) IN
                  result[t].error =
                    CASE e.stage = "_dl_with_retries" ->
                            <<"Erro ao baixar vídeo: ", "cause of ", "_dl_with_retries">>
                      [] e.stage = "extract_audio_ffmpeg" /\ e.res = "nonzero" ->
                            <<"Erro ao executar ffmpeg: ", "Command ", "ffmpeg",
                              " returned non-zero exit status ", "1">>
                      [] e.stage = "extract_audio_ffmpeg" /\ e.res = "missing" ->
                            <<"FFmpeg não encontrado. Instale o FFmpeg.">>
                      [] e.stage = "load_model" -> <<"cause of load_model">>
                      [] e.stage = "transcribe" ->
                            <<"Erro na transcrição: ", "cause of transcribe">>
                      [] e.stage = "summarize_with_openai" ->
                            <<"Erro ao gerar resumo com OpenAI: ", "cause of summarize">>
                      [] OTHER -> << >>)
    /\ [][\A t \in Threads :
            outcome'[t] # outcome[t]
               => \/ pc[t] = "idle"
                  \/ /\ pc[t] \in {"finally", "finally_abort"}
                     /\ outcome[t] = NoOutcome]_vars

\* a run that missed the captions and lost its first strategy ended in a
\* transcription failure
C20_Witness ==
    /\ pc[1] = "finally"
    /\ ~result[1].success
    /\ trace[1][1].res = "unavailable"
    /\ trace[1][2] = [stage |-> "_dl_basic", res |-> "fail"]
    /\ LastInvoked(1) = [stage |-> "transcribe", res |-> "fail"]

NamesVideo(s) ==
    \E i \in 1..Len(s) :
        \/ /\ s[i] \in {"youtu.be/", "youtube.com/embed/"}
           /\ i < Len(s)
           /\ Allowed(s[i + 1])
        \/ /\ s[i] = "youtube.com/watch"
           /\ i + 1 < Len(s)
           /\ s[i + 1] = "?"
           /\ \E j \in (i + 2)..(Len(s) - 1) :
                 /\ s[j] = "v="
                 /\ Allowed(s[j + 1])
                 /\ \A n \in (i + 2)..(j - 1) : s[n] # "nl"

\* C22: _extract_video_id returns the identifier of the link for the long
\* form (other parameters before or after v), the short form and the embed
\* form; it raises exactly when the string links to no video; it changes
\* nothing.
C22_ExtractVideoId ==
    \A t \in Threads :
        outcome[t] # NoOutcome
           => /\ \A x \in UrlForms :
                    url[t] = Render(x)
                       => outcome[t] = [kind |-> "returned", value |-> x.id]
              /\ outcome[t].kind = "raised" <=> ~NamesVideo(url[t])
              /\ \A p \in Paths : files[p] = 0
              /\ \A i \in Instances : whisper_model[i] = 0
              /\ trace[t] = << >>

\* C23: while a /transcribe request is processed, the model is loaded in the
\* size the request names, the audio is transcribed in the request's
\* language and the summary is capped at the request's max_tokens.
C23_RequestParametersHonoured ==
    \A t \in Threads :
        request[t].endpoint = "/transcribe"
           => /\ pc[t] = "load_model"
                    => ServerModelSize = request[t].whisper_model_size
              /\ pc[t] = "transcribe"
                    => TranscribeLanguage = request[t].language
              /\ pc[t] = "summarize_with_openai"
                    => SummaryMaxTokens = request[t].max_tokens

\* C24: a command-line run without a key that has a transcript to summarize
\* ends successfully (only the summary is skipped), and the transcript of a
\* run that ended successfully is in the output file.
C24_CliWithoutKey ==
    \A t \in Threads :
        /\ (/\ request[t].endpoint = "cli"
            /\ ~openai_key
            /\ pc[t] = "finally"
            /\ LastInvoked(t).stage = "summarize_with_openai")
              => result[t].success
        /\ (response[t].kind = "exit" /\ outcome[t].value.success)
              => /\ output_file.saved
                 /\ output_file.transcript = outcome[t].value.transcript

\* C25: when no call is interrupted and every external call returns or
\* raises, a run in progress reaches DONE or FAILED (its record is built) and
\* then returns; download_video makes at most four attempts; after the
\* record is built the run invokes no stage.
C25_Termination ==
    /\ \A t \in Threads : (pc[t] # "idle") ~> (pc[t] = "finally")
    /\ \A t \in Threads : (pc[t] = "finally") ~> Returned(t)
    /\ [](\A t \in Threads : Len(DownloadAttempts(t)) <= 4)
    /\ [][\A t \in Threads :
            pc[t] = "finally"
               => /\ pc'[t] \in {"finally", "idle"}
                  /\ trace'[t] \in {trace[t], << >>}]_vars

\* the longest run: a caption miss, three failed strategies, then every
\* stage succeeds
C25_Witness ==
    /\ pc[1] = "finally"
    /\ result[1].success
    /\ Len(trace[1]) = 9
    /\ Len(DownloadAttempts(1)) = 4

\* C26: the /transcribe handler answers every request with a VideoResponse
\* and propagates no exception; when it caught one (no key configured, or a
\* URL process_video rejects) the response is success=false, video_id
\* "unknown" and a non-empty error; when process_video returned a failure
\* record the response copies its video_id and error.
C26_HandlerNeverRaises ==
    /\ [](\A t \in Threads : response[t].kind # "raised")
    /\ [][\A t \in Threads :
            (request[t] = NoRequest /\ calls'[t] < calls[t])
               => LET rejected == ~_extract_video_id(url'[t]).matched
                      nokey == transcriber_instance = 0 /\ ~openai_key
                  IN  IF nokey \/ rejected
                      THEN /\ request'[t] = NoRequest
                           /\ response'[t].kind = "VideoResponse"
                           /\ ~response'[t].success
                           /\ response'[t].video_id = <<"unknown">>
                           /\ Truthy(response'[t].error)
                           /\ response'[t].error.text[1] = "Erro interno: "
                      ELSE /\ request'[t].started
                           /\ response'[t] = NoResponse]_vars
    /\ [][\A t \in Threads :
            (request[t].endpoint = "/transcribe" /\ request'[t] = NoRequest)
               => LET r == outcome[t].value IN
                  /\ response'[t].kind = "VideoResponse"
                  /\ response'[t].success = r.success
                  /\ response'[t].video_id = r.video_id
                  /\ ~r.success => /\ response'[t].error = Some(r.error)
                                    /\ Truthy(response'[t].error)]_vars

\* a request was answered from the failure record of its run, the request
\* of the other client from a caught exception
C26_Witness ==
    /\ response[1].kind = "VideoResponse"
    /\ ~response[1].success
    /\ response[1].video_id = <<"abc123">>
    /\ response[1].error.text[1] = "Erro ao baixar vídeo: "
    /\ response[2].kind = "VideoResponse"
    /\ response[2].video_id = <<"unknown">>
    /\ response[2].error.text =
          <<"Erro interno: ", "URL do YouTube inválida">>

\* C27: in the API server at most one process_video run is in progress: a
\* run holds the event loop from its start until its handler (or background
\* task) has taken the record it returned, and a run starts only when no
\* other run has recorded temporary files or has a call in progress.
C27_RunsDoNotInterleave ==
    /\ [](\A t, u \in Threads :
            /\ pc[t] # "idle" => loop = t
            /\ (pc[t] # "idle" /\ u # t)
                  => /\ pc[u] = "idle"
                     /\ temp_files[u] = << >>
                     /\ request[u] # NoRequest => ~request[u].started)
    /\ [][\A t \in Threads :
            (pc[t] = "idle" /\ pc'[t] # "idle")
               => /\ loop = 0
                  /\ inst'[t] = transcriber_instance'
                  /\ transcriber_instance' = 1]_vars

\* a run of one client is in progress while the background task of the
\* other waits for the loop, after an earlier run has loaded the model
C27_Witness ==
    /\ pc[1] = "transcribe"
    /\ loop = 1
    /\ request[1].endpoint = "/transcribe"
    /\ request[2].endpoint = "/transcribe-async"
    /\ ~request[2].started

\* C28: a caption retrieval that delivers empty text sends the run to
\* download_video, first strategy first, as an unavailable one does; the
\* run never summarizes the empty text, and its successful result carries
\* the method "whisper".
C28_EmptyCaptionIsUnavailable ==
    \A t \in Threads :
        (trace[t] # << >> /\ trace[t][1].res = "empty")
           => /\ Len(trace[t]) = 1 => (pc[t] = "download_video" /\ idx[t] = 1)
              /\ Len(trace[t]) >= 2 => trace[t][2].stage = "_dl_basic"
              /\ (pc[t] = "finally" /\ result[t].success)
                    => /\ result[t].method = "whisper"
                       /\ temp_files[t] = <<video_file, audio_file>>

\* a successful run whose caption retrieval delivered empty text
C28_Witness ==
    /\ pc[1] = "finally"
    /\ result[1].success
    /\ result[1].method = "whisper"
    /\ trace[1][1].res = "empty"

LoadFailed(t) ==
    /\ pc[t] = "finally"
    /\ trace[t] # << >>
    /\ LastInvoked(t) = [stage |-> "load_model", res |-> "fail"]

\* C29: a failed load leaves whisper_model unset (no transcriber ever holds
\* a model that was not fully built); the run builds the failure record with
\* the load failure's message, has both temporary files recorded and returns
\* with both removed (when no os.remove failed); a run that reaches
\* transcription loads exactly when the transcriber holds no model.
C29_LoadFailure ==
    /\ [](\A i \in Instances : whisper_model[i] \in 0..constructed[i])
    /\ [](\A t \in Threads :
            LoadFailed(t)
               => /\ whisper_model[inst[t]] = 0
                  /\ result[t] = FailureResult(video_id[t], <<"cause of load_model">>)
                  /\ temp_files[t] = <<video_file, audio_file>>)
    /\ [][\A t \in Threads :
            (LoadFailed(t) /\ pc'[t] = "idle")
               => /\ outcome'[t] = [kind |-> "returned", value |-> result[t]]
                  /\ rm_failed'[t] = {} => \A p \in Paths : files'[p] = 0]_vars
    /\ [][\A t \in Threads :
            (pc[t] = "transcribe_audio_whisper"
                /\ pc'[t] \in {"load_model", "transcribe"})
               => (pc'[t] = "load_model" <=> whisper_model[inst[t]] = 0)]_vars

\* the call after a failed load is loading the model again
C29_Witness ==
    /\ pc[1] = "load_model"
    /\ previous[1].outcome.kind = "returned"
    /\ ~previous[1].outcome.value.success
    /\ previous[1].outcome.value.error = <<"cause of load_model">>
    /\ whisper_model[inst[1]] = 0
    /\ constructed[inst[1]] = 0

====
